---- MODULE Spec2Model ----
(***************************************************************************)
(* GUN4FUN trivia bot (src/bot.py): the five tables of trivia.db, the      *)
(* scheduler's pending close-out jobs, the clock, and the handlers that    *)
(* read and write them; closed records the events whose close-out ran.     *)
(*                                                                         *)
(* Every handler is written as an operator that computes, from the current *)
(* tables and its inputs, the tables it leaves behind and what it answers; *)
(* the action of the handler installs that result.                         *)
(*                                                                         *)
(* Text (callback data, choice labels) is a sequence of atoms, an atom     *)
(* being one character, except "ans", the fixed prefix that                *)
(* CallbackQueryHandler(pattern=r"^ans\|") guarantees.                     *)
(* Time is in seconds, local time is taken at a fixed offset of zero from  *)
(* the epoch, and second 0 is 1970-01-01 00:00:00, a Thursday.             *)
(* Columns that no statement of the program ever reads back and that are   *)
(* fixed by other columns (events.choices, badges.name, badges.period) are *)
(* left out of the rows.                                                   *)
(***************************************************************************)
EXTENDS Integers, Sequences, FiniteSets, TLC

VARIABLES now, users, events, answers, streaks, badges, jobs, closed, bot_data

tables == <<users, events, answers, streaks, badges>>
vars == <<now, users, events, answers, streaks, badges, jobs, closed, bot_data>>

(***************************** bounds **************************************)
\* events ever persisted in a behaviour of Spec
MaxEvents == 2
\* moves of the clock by each of its steps in a behaviour of Spec
MaxTicks == 2
\* the same two bounds for SpecStreak, SpecSkip and SpecBadge
StreakEvents == 2
StreakTicks == 1
SkipEvents == 3
SkipTicks == 1
BadgeEvents == 4
BadgeTicks == 2
\* and for SpecRank
RankEvents == 2
RankTicks == 1
\* hours of clock after each of the dates SpecPeriod starts from
PeriodHours == 48
\* moves of the clock by each of its steps in SpecProgram
ProgramTicks == 1
\* SpecDay: the events already closed when it starts, and the same two bounds
DayHistory == 3
DayEvents == 6
DayTicks == 2
\* events and moves of the clock in SpecSend
SendEvents == 2
SendTicks == 2

Chats == {1, 2}
Users == {1, 2}
Names == {"ana", "bea"}

(*************************** configuration *********************************)
QUESTION_WINDOW_SECONDS == 180
DAY == 24 * 3600
ROSTER_DAYS == 30
RosterWindow == ROSTER_DAYS * 24 * 3600

LabelA == <<"A">>
LabelB == <<"B">>
\* load_questions keeps the entries whose answer is one of their choices
RawQuestions ==
    { [q |-> "q1", choices |-> <<LabelA, LabelB>>, answer |-> LabelA],
      [q |-> "q2", choices |-> <<LabelA, LabelB>>, answer |-> LabelB],
      [q |-> "q3", choices |-> <<LabelA, LabelB>>, answer |-> <<"C">>] }
QUESTIONS ==
    { q \in RawQuestions : \E i \in 1..Len(q.choices) : q.choices[i] = q.answer }

(****************************** helpers ************************************)
Max(a, b) == IF a >= b THEN a ELSE b

(***************************** calendar ************************************)
IsLeap(y) == (y % 4 = 0 /\ y % 100 # 0) \/ y % 400 = 0
DaysInMonth(y, m) ==
    IF m = 2 THEN (IF IsLeap(y) THEN 29 ELSE 28)
    ELSE IF m \in {4, 6, 9, 11} THEN 30 ELSE 31
DaysInYear(y) == IF IsLeap(y) THEN 366 ELSE 365

\* the civil date <<year, month, day>> that lies d days after the first of
\* month m of year y
RECURSIVE CivilFrom(_, _, _)
CivilFrom(y, m, d) ==
    IF m = 1 /\ d >= DaysInYear(y) THEN CivilFrom(y + 1, 1, d - DaysInYear(y))
    ELSE IF d < DaysInMonth(y, m) THEN <<y, m, d + 1>>
    ELSE IF m = 12 THEN CivilFrom(y + 1, 1, d - 31)
    ELSE CivilFrom(y, m + 1, d - DaysInMonth(y, m))

\* the day's number since the epoch and the civil date <<year, month, day>>
\* of a count w of wall-clock seconds
DayNo(w) == w \div DAY
Civil(w) == CivilFrom(1970, 1, DayNo(w))
\* datetime.weekday(): Monday is 0
Weekday(w) == (DayNo(w) + 3) % 7

\* wall-clock seconds of 00:00:00 on the first of month m of year y
RECURSIVE DaysBefore(_, _)
DaysBefore(y, m) ==
    IF y = 1970 /\ m = 1 THEN 0
    ELSE IF m = 1 THEN DaysBefore(y - 1, 1) + DaysInYear(y - 1)
    ELSE DaysBefore(y, m - 1) + DaysInMonth(y, m - 1)
MonthStartTs(y, m) == DaysBefore(y, m) * DAY

\* TZ = pytz.timezone("Europe/Madrid"): the offsets of winter and summer time
CET == 3600
CEST == 7200
\* no summer time in Spain before 1974; from 1996 on it runs from 01:00 UTC
\* of the last Sunday of March to 01:00 UTC of the last Sunday of October.
\* The years between, with rules of their own, are outside the clocks used
\* here and are given winter time
FirstEuYear == 1996
EuRuleFrom == MonthStartTs(FirstEuYear, 1)
LastSunday(y, m) ==
    LET last == DaysBefore(y, m + 1) - 1
    IN last - ((((last + 3) % 7) + 1) % 7)
DstStart(y) == LastSunday(y, 3) * DAY + 3600
DstEnd(y) == LastSunday(y, 10) * DAY + 3600
\* the offset the zone has at the instant t
UtcOffset(t) ==
    IF t < EuRuleFrom THEN CET
    ELSE LET y == Civil(t)[1]
         IN IF t >= DstStart(y) /\ t < DstEnd(y) THEN CEST ELSE CET

\* period_bounds(kind) at the instant t. datetime.now(TZ) carries the fixed
\* offset o of the instant t; replace(), the timedelta arithmetic and
\* timestamp() all keep that offset, whatever offset the zone has at the
\* wall time they arrive at
period_bounds(kind, t) ==
    LET o == UtcOffset(t)
        w == t + o
    IN IF kind = "dia" THEN
           LET start == DayNo(w) * DAY - o IN <<start, start + DAY>>
       ELSE IF kind = "semana" THEN
           LET start == (DayNo(w) - Weekday(w)) * DAY - o
           IN <<start, start + 7 * DAY>>
       ELSE
           LET c == Civil(w)
               start == MonthStartTs(c[1], c[2]) - o
               end == IF c[2] = 12 THEN MonthStartTs(c[1] + 1, 1) - o
                      ELSE MonthStartTs(c[1], c[2] + 1) - o
           IN <<start, end>>

Kinds == {"dia", "semana", "mes"}

\* datetime.fromtimestamp(t0, tz=TZ).strftime("%Y-%m-%d")
DateKey(t0) == Civil(t0 + UtcOffset(t0))

(****************************** tables *************************************)
UserRows(c, u) == { r \in users : r.chat_id = c /\ r.user_id = u }
StreakRowsIn(st, c, u) == { r \in st : r.chat_id = c /\ r.user_id = u }
EventRows(id) == { e \in events : e.id = id }
AnswerRows(id, u) == { a \in answers : a.event_id = id /\ a.user_id = u }

\* INSERT INTO users ... ON CONFLICT(chat_id, user_id) DO UPDATE SET name, last_seen_ts
UpsertUser(c, u, name, ts) ==
    (users \ UserRows(c, u))
        \cup {[chat_id |-> c, user_id |-> u, name |-> name, last_seen_ts |-> ts]}

\* INSERT OR REPLACE in place of ON CONFLICT DO NOTHING
EnsureStreakReplace(st, c, u) ==
    { r \in st : r.chat_id # c \/ r.user_id # u }
        \cup {[chat_id |-> c, user_id |-> u, streak |-> 0, best_streak |-> 0]}

\* INSERT INTO streaks ... VALUES(?, ?, 0, 0) ON CONFLICT(chat_id, user_id) DO NOTHING
EnsureStreak(st, c, u) ==
    IF StreakRowsIn(st, c, u) # {} THEN st
    ELSE st \cup {[chat_id |-> c, user_id |-> u, streak |-> 0, best_streak |-> 0]}

\* SUM(CASE WHEN correct = flag THEN 1 ELSE 0 END) over a group of answer rows
RECURSIVE SumCase(_, _)
SumCase(rows, flag) ==
    IF rows = {} THEN 0
    ELSE LET r == CHOOSE x \in rows : TRUE
         IN (IF r.correct = flag THEN 1 ELSE 0) + SumCase(rows \ {r}, flag)

(************************** callback payloads ******************************)
Digits == {"0", "1", "2", "3", "4", "5", "6", "7", "8", "9"}
DigitVal(a) ==
    CASE a = "0" -> 0 [] a = "1" -> 1 [] a = "2" -> 2 [] a = "3" -> 3
      [] a = "4" -> 4 [] a = "5" -> 5 [] a = "6" -> 6 [] a = "7" -> 7
      [] a = "8" -> 8 [] a = "9" -> 9

\* str(event_id), for the ids the model reaches
IdText(n) ==
    LET d == <<"0", "1", "2", "3", "4", "5", "6", "7", "8", "9">>
    IN IF n < 10 THEN <<d[n + 1]>> ELSE <<d[(n \div 10) + 1], d[(n % 10) + 1]>>

\* f"ans|{event_id}|{opt}", the callback_data of a button
ButtonData(event_id, opt) == <<"ans", "|">> \o IdText(event_id) \o <<"|">> \o opt

\* str.split("|", n): at most n cuts, the rest of the text stays in the last field
RECURSIVE Split(_, _)
Split(s, n) ==
    IF n = 0 \/ ~(\E i \in 1..Len(s) : s[i] = "|") THEN <<s>>
    ELSE LET i == CHOOSE k \in 1..Len(s) :
                      s[k] = "|" /\ \A j \in 1..(k - 1) : s[j] # "|"
         IN <<SubSeq(s, 1, i - 1)>> \o Split(SubSeq(s, i + 1, Len(s)), n - 1)

\* int(text) of an unsigned decimal; ok is FALSE where int() raises
RECURSIVE DecimalValue(_)
DecimalValue(s) ==
    IF s = <<>> THEN 0
    ELSE 10 * DecimalValue(SubSeq(s, 1, Len(s) - 1)) + DigitVal(s[Len(s)])
ParseInt(s) ==
    IF s # <<>> /\ \A i \in 1..Len(s) : s[i] \in Digits
    THEN [ok |-> TRUE, value |-> DecimalValue(s)]
    ELSE [ok |-> FALSE, value |-> 0]

\* _, event_id_str, choice = q.data.split("|", 2); event_id = int(event_id_str)
ParseCallback(data) ==
    LET parts == Split(data, 2) IN
    IF Len(parts) # 3 THEN [ok |-> FALSE, event_id |-> 0, choice |-> <<>>]
    ELSE LET n == ParseInt(parts[2])
         IN [ok |-> n.ok, event_id |-> n.value, choice |-> parts[3]]

Labels == {LabelA, LabelB}

\* what a button press can carry: the data of the buttons of the events
\* 1..maxEvents + 1 (the last is never persisted), a text with one field too
\* few and a text whose event id is no number
Payloads(maxEvents) ==
    { ButtonData(e, l) : e \in 1..(maxEvents + 1), l \in Labels }
        \cup { <<"ans", "|", "1">>, <<"ans", "|", "x", "|", "A">> }

\* every press the specifications below draw from, and its parse; the parse
\* of a press does not depend on the state and is computed once
AllPresses ==
    Payloads(MaxEvents) \cup Payloads(StreakEvents) \cup Payloads(SkipEvents)
        \cup Payloads(BadgeEvents) \cup Payloads(RankEvents)
        \cup Payloads(SendEvents) \cup Payloads(DayEvents)
Parsed == [d \in AllPresses |-> ParseCallback(d)]

(***************************** answer_cb ***********************************)
AckNone == "none"
AckNotFound == "Evento no encontrado."
AckLate == "Fuera de tiempo."
AckCorrect == "Correcto"
AckWrong == "Incorrecto"
AckDuplicate == "Ya respondiste esta pregunta."

\* a table declared without its primary key
AnswerKeyNeverTaken(event_id, u) == FALSE

\* the check made by PRIMARY KEY(event_id, user_id) on INSERT INTO answers
AnswerKeyTaken(event_id, u) == AnswerRows(event_id, u) # {}

\* 1 if choice == ev["answer"] else 0
Correctness(choice, ev) == IF choice = ev.answer THEN 1 ELSE 0

\* the window added once more to the end
TimeUpWindowTwice(t, ev) == t > ev.end_ts + QUESTION_WINDOW_SECONDS
\* the last second of the window shut out
TimeUpAtEnd(t, ev) == t >= ev.end_ts

\* now > ev["end_ts"]
TimeUp(t, ev) == t > ev.end_ts

\* what answer_cb leaves in the tables and the last text it acknowledges with
AnswerCbResult(data, u, name) ==
    LET p == Parsed[data]
        same == [users |-> users, streaks |-> streaks, answers |-> answers]
    IN
    IF ~p.ok THEN same @@ [ack |-> AckNone]
    ELSE IF EventRows(p.event_id) = {} THEN same @@ [ack |-> AckNotFound]
    ELSE
        LET ev == CHOOSE e \in events : e.id = p.event_id IN
        IF TimeUp(now, ev) THEN same @@ [ack |-> AckLate]
        ELSE
            LET us == UpsertUser(ev.chat_id, u, name, now)
                st == EnsureStreak(streaks, ev.chat_id, u)
                ok == Correctness(p.choice, ev)
            IN
            IF AnswerKeyTaken(p.event_id, u)
            THEN [users |-> us, streaks |-> st, answers |-> answers,
                  ack |-> AckDuplicate]
            ELSE [users |-> us, streaks |-> st,
                  answers |-> answers \cup
                      {[event_id |-> p.event_id, user_id |-> u,
                        choice |-> p.choice, correct |-> ok, ts |-> now]},
                  ack |-> IF ok = 1 THEN AckCorrect ELSE AckWrong]

\* the five tables as answer_cb leaves them
AnswerCbTables(data, u, name) ==
    LET r == AnswerCbResult(data, u, name)
    IN <<r.users, events, r.answers, r.streaks, badges>>

answer_cb(data, u, name) ==
    LET t == AnswerCbTables(data, u, name) IN
    /\ users' = t[1]
    /\ events' = t[2]
    /\ answers' = t[3]
    /\ streaks' = t[4]
    /\ badges' = t[5]
    /\ UNCHANGED <<now, jobs, closed, bot_data>>

(***************************** touch_user **********************************)
touch_user(c, u, name) ==
    /\ users' = UpsertUser(c, u, name, now)
    /\ streaks' = EnsureStreak(streaks, c, u)
    /\ UNCHANGED <<now, events, answers, badges, jobs, closed, bot_data>>

(****************************** trivia_job *********************************)
\* the body of trivia_job's loop for one chat_id, on the events and jobs of
\* acc: the event is committed, the question message is sent, and only then
\* is the close-out scheduled, so a send that raises leaves the event without
\* a close-out job
TriviaStep(acc, chat_id, q, sent) ==
    LET event_id == Cardinality(acc.events) + 1
        start_ts == now
        end_ts == start_ts + QUESTION_WINDOW_SECONDS
    IN [events |-> acc.events \cup
           {[id |-> event_id, chat_id |-> chat_id, question |-> q.q,
             answer |-> q.answer, start_ts |-> start_ts, end_ts |-> end_ts]},
        jobs |-> IF sent THEN acc.jobs \cup {event_id} ELSE acc.jobs]

TriviaBody(chat_id, q, sent) ==
    LET r == TriviaStep([events |-> events, jobs |-> jobs], chat_id, q, sent)
    IN
    /\ events' = r.events
    /\ jobs' = r.jobs
    /\ UNCHANGED <<now, users, answers, streaks, badges, closed, bot_data>>

(*************************** close_event_job *******************************)
\* best_streak overwritten with the new streak
StreakStepNoMax(st, chat_id, r) ==
    LET found == StreakRowsIn(st, chat_id, r.user_id)
        row == IF found = {} THEN [streak |-> 0, best_streak |-> 0]
               ELSE CHOOSE x \in found : TRUE
        streak == IF r.correct = 1 THEN row.streak + 1 ELSE 0
    IN (st \ found) \cup
           {[chat_id |-> chat_id, user_id |-> r.user_id,
             streak |-> streak, best_streak |-> streak]}

\* UPDATE streaks ... WHERE user_id=? without the chat: the user's rows of
\* every chat take the new values
StreakStepAnyChat(st, chat_id, r) ==
    LET found == StreakRowsIn(st, chat_id, r.user_id)
        row == IF found = {} THEN [streak |-> 0, best_streak |-> 0]
               ELSE CHOOSE x \in found : TRUE
        streak == IF r.correct = 1 THEN row.streak + 1 ELSE 0
        best == Max(row.best_streak, streak)
        mine == { x \in st : x.user_id = r.user_id }
    IN (st \ mine) \cup
           { [chat_id |-> c, user_id |-> r.user_id,
              streak |-> streak, best_streak |-> best] :
                 c \in {chat_id} \cup { x.chat_id : x \in mine } }

\* one turn of the "update streaks" loop, for the answer row r
StreakStep(st, chat_id, r) ==
    LET ok == IF r.correct = 1 THEN 1 ELSE 0
        found == StreakRowsIn(st, chat_id, r.user_id)
        row == IF found = {} THEN [streak |-> 0, best_streak |-> 0]
               ELSE CHOOSE x \in found : TRUE
        streak == IF ok = 1 THEN row.streak + 1 ELSE 0
        best == Max(row.best_streak, streak)
    IN (st \ found) \cup
           {[chat_id |-> chat_id, user_id |-> r.user_id,
             streak |-> streak, best_streak |-> best]}

RECURSIVE UpdateStreaks(_, _, _)
UpdateStreaks(st, chat_id, rows) ==
    IF rows = {} THEN st
    ELSE LET r == CHOOSE x \in rows : TRUE
         IN UpdateStreaks(StreakStep(st, chat_id, r), chat_id, rows \ {r})

\* the roster query without its last_seen_ts condition
RosterNoCutoff(chat_id, t) ==
    { [user_id |-> r.user_id, name |-> r.name] :
        r \in { x \in users : x.chat_id = chat_id } }

\* SELECT user_id, name FROM users WHERE chat_id=? AND last_seen_ts>=?
Roster(chat_id, t) ==
    LET cutoff == t - RosterWindow IN
    { [user_id |-> r.user_id, name |-> r.name] :
        r \in { x \in users : x.chat_id = chat_id /\ x.last_seen_ts >= cutoff } }

\* SELECT a.* FROM answers a ... WHERE a.event_id=?
EventAnswers(event_id) == { a \in answers : a.event_id = event_id }

\* the streaks table after the close-out of event_id, and the three counts of
\* its closing message
CloseEventResult(event_id) ==
    IF EventRows(event_id) = {}
    THEN [streaks |-> streaks, correct |-> 0, wrong |-> 0, not_ans |-> 0]
    ELSE
        LET ev == CHOOSE e \in events : e.id = event_id
            ans == EventAnswers(event_id)
            answered_ids == { r.user_id : r \in ans }
            roster_ids == { r.user_id : r \in Roster(ev.chat_id, now) }
        IN [streaks |-> UpdateStreaks(streaks, ev.chat_id, ans),
            correct |-> Cardinality({ r \in ans : r.correct = 1 }),
            wrong |-> Cardinality({ r \in ans : r.correct = 0 }),
            not_ans |-> Cardinality(roster_ids \ answered_ids)]

\* run_once(close_event_job, when=QUESTION_WINDOW_SECONDS): the job fires once,
\* no earlier than the event's end
close_event_job(event_id) ==
    /\ event_id \in jobs
    /\ \E e \in events : e.id = event_id /\ now >= e.end_ts
    /\ streaks' = CloseEventResult(event_id).streaks
    /\ jobs' = jobs \ {event_id}
    /\ closed' = closed \cup {event_id}
    /\ UNCHANGED <<now, users, events, answers, badges, bot_data>>

(****************************** fetch_rank *********************************)
NULL == "NULL"

\* SELECT id FROM events WHERE chat_id=? AND start_ts>=? AND start_ts<?
PeriodEventIds(chat_id, kind, t) ==
    LET b == period_bounds(kind, t) IN
    { e.id : e \in { x \in events :
                 x.chat_id = chat_id /\ x.start_ts >= b[1] /\ x.start_ts < b[2] } }

\* LEFT JOIN users u ON u.chat_id=? AND u.user_id=a.user_id
JoinedName(chat_id, u) ==
    IF UserRows(chat_id, u) = {} THEN NULL
    ELSE (CHOOSE r \in UserRows(chat_id, u) : TRUE).name

\* the GROUP BY a.user_id row of user u over the answers to the events ids
RankRow(chat_id, ids, u) ==
    LET grp == { a \in answers : a.event_id \in ids /\ a.user_id = u } IN
    [user_id |-> u, name |-> JoinedName(chat_id, u),
     aciertos |-> SumCase(grp, 1), fallos |-> SumCase(grp, 0)]

\* ORDER BY aciertos DESC alone
RowBeforeHitsOnly(a, b) == a.aciertos > b.aciertos

\* ORDER BY aciertos DESC, fallos ASC: row a sorts strictly before row b
RowBefore(a, b) ==
    \/ a.aciertos > b.aciertos
    \/ a.aciertos = b.aciertos /\ a.fallos < b.fallos

\* the sort of ORDER BY: rows that compare equal keep the order they came in
RECURSIVE InsertRow(_, _)
InsertRow(sorted, r) ==
    IF sorted = <<>> THEN <<r>>
    ELSE IF RowBefore(r, Head(sorted)) THEN <<r>> \o sorted
    ELSE <<Head(sorted)>> \o InsertRow(Tail(sorted), r)

RECURSIVE SortRows(_)
SortRows(seq) ==
    IF seq = <<>> THEN <<>>
    ELSE InsertRow(SortRows(SubSeq(seq, 1, Len(seq) - 1)), seq[Len(seq)])

\* the orders in which the engine may produce the groups before sorting them
ScanOrders ==
    { s \in [1..Cardinality(Users) -> Users] :
        \A i, j \in 1..Cardinality(Users) : i # j => s[i] # s[j] }

\* the groups of the users with an answer in ids, in the order scan
RECURSIVE GroupRows(_, _, _)
GroupRows(chat_id, ids, scan) ==
    IF scan = <<>> THEN <<>>
    ELSE LET u == Head(scan)
             rest == GroupRows(chat_id, ids, Tail(scan))
         IN IF \E a \in answers : a.event_id \in ids /\ a.user_id = u
            THEN <<RankRow(chat_id, ids, u)>> \o rest
            ELSE rest

\* fetch_rank(chat_id, kind) at time t: rows is a sequence, roster and not_ans
\* are the sets of the rows of those two lists
fetch_rank(chat_id, kind, t, scan) ==
    LET ids == PeriodEventIds(chat_id, kind, t) IN
    IF ids = {} THEN [rows |-> <<>>, roster |-> {}, not_ans |-> {}]
    ELSE
        LET roster == Roster(chat_id, t)
            answered == { a.user_id : a \in { x \in answers : x.event_id \in ids } }
        IN [rows |-> SortRows(GroupRows(chat_id, ids, scan)),
            roster |-> roster,
            not_ans |-> { r \in roster : r.user_id \notin answered }]

\* ranking_cmd only reads
ranking_cmd(chat_id, kind) ==
    /\ kind \in Kinds
    /\ UNCHANGED vars

(************************** award_daily_badges *****************************)
DayTiers == << [code |-> "BRONCE_DIA", th |-> 3],
               [code |-> "PLATA_DIA", th |-> 5],
               [code |-> "ORO_DIA", th |-> 6] >>
StreakTiers == << [code |-> "RACHA_3", th |-> 3],
                  [code |-> "RACHA_5", th |-> 5] >>

\* a table declared without its primary key
BadgeKeyNeverTaken(bs, chat_id, uid, code, key) == FALSE

\* the check made by PRIMARY KEY(chat_id, user_id, code, period_key)
BadgeKeyTaken(bs, chat_id, uid, code, key) ==
    \E b \in bs : /\ b.chat_id = chat_id /\ b.user_id = uid
                  /\ b.code = code /\ b.period_key = key

\* awarded.setdefault(uid, []).append(bd)
Appended(awarded, uid, code) ==
    IF uid \in DOMAIN awarded
    THEN [awarded EXCEPT ![uid] = Append(@, code)]
    ELSE awarded @@ (uid :> <<code>>)

\* awarded.append(bd) moved out of the try: a skipped insert is reported too
TryAwardReportsSkipped(acc, chat_id, uid, value, tier, key, t) ==
    IF value < tier.th THEN acc
    ELSE [badges |-> IF BadgeKeyTaken(acc.badges, chat_id, uid, tier.code, key)
                     THEN acc.badges
                     ELSE acc.badges \cup
                              {[chat_id |-> chat_id, user_id |-> uid,
                                code |-> tier.code, ts |-> t, period_key |-> key]},
          awarded |-> Appended(acc.awarded, uid, tier.code)]

\* the INSERT INTO badges of one (user, code) whose value reaches the
\* threshold: acc is [badges, awarded]
TryAward(acc, chat_id, uid, value, tier, key, t) ==
    IF value < tier.th THEN acc
    ELSE IF BadgeKeyTaken(acc.badges, chat_id, uid, tier.code, key) THEN acc
    ELSE [badges |-> acc.badges \cup
              {[chat_id |-> chat_id, user_id |-> uid, code |-> tier.code,
                ts |-> t, period_key |-> key]},
          awarded |-> Appended(acc.awarded, uid, tier.code)]

\* the tiers as an if/elif chain: the first threshold reached is the only
\* one tried
TryTiersFirstMatch(acc, chat_id, uid, value, tiers, key, t) ==
    IF tiers = <<>> \/ value < Head(tiers).th THEN acc
    ELSE TryAward(acc, chat_id, uid, value, Head(tiers), key, t)

RECURSIVE TryTiers(_, _, _, _, _, _, _)
TryTiers(acc, chat_id, uid, value, tiers, key, t) ==
    IF tiers = <<>> THEN acc
    ELSE TryTiers(TryAward(acc, chat_id, uid, value, Head(tiers), key, t),
                  chat_id, uid, value, Tail(tiers), key, t)

\* for r in rows: ... ; rows is a set of [user_id, value]
RECURSIVE AwardRows(_, _, _, _, _, _)
AwardRows(acc, chat_id, rows, tiers, key, t) ==
    IF rows = {} THEN acc
    ELSE LET r == CHOOSE x \in rows : TRUE
         IN AwardRows(TryTiers(acc, chat_id, r.user_id, r.value, tiers, key, t),
                      chat_id, rows \ {r}, tiers, key, t)

\* the per-user hit counts of the day: answers joined to the chat's events
\* that started in [t0, t1)
DayHitRows(chat_id, t) ==
    LET ids == PeriodEventIds(chat_id, "dia", t)
        day == { a \in answers : a.event_id \in ids }
    IN { [user_id |-> u,
          value |-> SumCase({ a \in day : a.user_id = u }, 1)] :
            u \in { a.user_id : a \in day } }

\* the streak badges decided on best_streak
StreakValueRowsBest(chat_id) ==
    { [user_id |-> r.user_id, value |-> r.best_streak] :
        r \in { x \in streaks : x.chat_id = chat_id } }

\* SELECT user_id, streak, best_streak FROM streaks WHERE chat_id=?
StreakValueRows(chat_id) ==
    { [user_id |-> r.user_id, value |-> r.streak] :
        r \in { x \in streaks : x.chat_id = chat_id } }

\* award_daily_badges(chat_id) run at time t on the badges table bs
AwardResult(chat_id, t, bs) ==
    LET key == DateKey(period_bounds("dia", t)[1])
        acc0 == [badges |-> bs, awarded |-> <<>>]
        acc1 == AwardRows(acc0, chat_id, DayHitRows(chat_id, t), DayTiers, key, t)
    IN AwardRows(acc1, chat_id, StreakValueRows(chat_id), StreakTiers, key, t)

award_daily_badges(chat_id) ==
    /\ badges' = AwardResult(chat_id, now, badges).badges
    /\ UNCHANGED <<now, users, events, answers, streaks, jobs, closed, bot_data>>

(******************************** start ************************************)
\* getattr(context.application.bot_data, "chat_ids", set()): bot_data is a
\* dict, "chat_ids" is looked up as an attribute of the dict object and not
\* as a key, a dict has no such attribute, and getattr gives the default
GetattrChatIds(bd) == {}

\* ids = getattr(...); ids.add(ch.id); bot_data["chat_ids"] = ids
start(chat_id) ==
    /\ bot_data' = [k \in (DOMAIN bot_data) \cup {"chat_ids"} |->
                       IF k = "chat_ids"
                       THEN GetattrChatIds(bot_data) \cup {chat_id}
                       ELSE bot_data[k]]
    /\ UNCHANGED <<now, users, events, answers, streaks, badges, jobs, closed>>

\* the value of bot_data["chat_ids"], the empty set while the key is not set
StoredChats(bd) == IF "chat_ids" \in DOMAIN bd THEN bd["chat_ids"] ELSE {}

\* the orders in which a for loop may go through the set S
Orders(S) ==
    { o \in [1..Cardinality(S) -> S] :
        \A i, j \in 1..Cardinality(S) : i # j => o[i] # o[j] }

(************************ trivia_job, as scheduled *************************)
\* for chat_id in chat_ids, in the order given; q[c] is the question picked
\* for chat c and sent[c] tells whether send_message returned: when it raises
\* the job ends there
RECURSIVE TriviaLoop(_, _, _, _)
TriviaLoop(acc, order, q, sent) ==
    IF order = <<>> THEN acc
    ELSE LET c == Head(order)
             next == TriviaStep(acc, c, q[c], sent[c])
         IN IF sent[c] THEN TriviaLoop(next, Tail(order), q, sent) ELSE next

\* what one firing of trivia_job makes of events and jobs
TriviaJobResult(order, q, sent) ==
    TriviaLoop([events |-> events, jobs |-> jobs], order, q, sent)

trivia_job(QS, SS) ==
    LET chat_ids == GetattrChatIds(bot_data) IN
    IF chat_ids = {} THEN UNCHANGED vars
    ELSE \E order \in Orders(chat_ids), q \in [chat_ids -> QS],
            sent \in [chat_ids -> SS] :
             /\ events' = TriviaJobResult(order, q, sent).events
             /\ jobs' = TriviaJobResult(order, q, sent).jobs
             /\ UNCHANGED <<now, users, answers, streaks, badges, closed, bot_data>>

\* pregunta_ahora sets context.job and awaits trivia_job(context)
pregunta_ahora(chat_id, QS, SS) == trivia_job(QS, SS)

(**************************** daily_summary_job ****************************)
\* the body of daily_summary_job's loop for one chat_id: acc.badges is the
\* badges table, acc.passes the chats award_daily_badges was called for and
\* acc.sent the chats a summary was sent to, both in order; delivered tells
\* whether send_message returned, and acc.raised that it did not
SummaryStep(acc, chat_id, scan, delivered) ==
    LET rank == fetch_rank(chat_id, "dia", now, scan) IN
    IF rank.rows = <<>> /\ rank.roster = {} THEN acc
    ELSE [badges |-> AwardResult(chat_id, now, acc.badges).badges,
          passes |-> Append(acc.passes, chat_id),
          sent |-> IF delivered THEN Append(acc.sent, chat_id) ELSE acc.sent,
          raised |-> ~delivered]

\* for chat_id in chat_ids, in the order given; a send that raises ends the job
RECURSIVE SummaryLoop(_, _, _, _)
SummaryLoop(acc, order, scan, delivered) ==
    IF order = <<>> \/ acc.raised THEN acc
    ELSE SummaryLoop(SummaryStep(acc, Head(order), scan, delivered[Head(order)]),
                     Tail(order), scan, delivered)

\* one firing of daily_summary_job
DailySummaryResult(order, scan, delivered) ==
    LET chat_ids == GetattrChatIds(bot_data)
        none == [badges |-> badges, passes |-> <<>>, sent |-> <<>>,
                 raised |-> FALSE]
    IN IF chat_ids = {} THEN none
       ELSE SummaryLoop(none, order, scan, delivered)

daily_summary_job(SS) ==
    LET chat_ids == GetattrChatIds(bot_data) IN
    \E order \in Orders(chat_ids), scan \in ScanOrders,
       delivered \in [chat_ids -> SS] :
        /\ badges' = DailySummaryResult(order, scan, delivered).badges
        /\ UNCHANGED <<now, users, events, answers, streaks, jobs, closed, bot_data>>

(******************************** clock ************************************)
\* the process starts on Saturday 1970-01-31 at 00:00:00: the next day is in
\* another month and the day after that in another week
Boot == 30 * DAY - CET

\* the clock moves by a second, by the answer window, by a day or by the
\* roster's 30 days
TickSteps == {1, QUESTION_WINDOW_SECONDS, DAY, RosterWindow}

\* how many moves by the step d lead from Boot to t, each step being taken
\* fewer times than the next larger step is long
StepsTaken(t, d) ==
    LET e == t - Boot IN
    IF d = RosterWindow THEN e \div RosterWindow
    ELSE IF d = DAY THEN (e % RosterWindow) \div DAY
    ELSE IF d = QUESTION_WINDOW_SECONDS THEN (e % DAY) \div QUESTION_WINDOW_SECONDS
    ELSE e % QUESTION_WINDOW_SECONDS

\* the clock moves by d, at most maxTicks times by each step
Tick(d, maxTicks) ==
    /\ StepsTaken(now, d) < maxTicks
    /\ now' = now + d
    /\ UNCHANGED <<users, events, answers, streaks, badges, jobs, closed, bot_data>>

(************************** the game, per chat *****************************)
Init ==
    /\ now = Boot
    /\ users = {}
    /\ events = {}
    /\ answers = {}
    /\ streaks = {}
    /\ badges = {}
    /\ jobs = {}
    /\ closed = {}
    /\ bot_data = <<>>

\* who is in which chat: <<chat, user>>
Everyone == Chats \X Users

ChatsOf(M) == { m[1] : m \in M }
UsersOf(M) == { m[2] : m \in M }

\* a user sees, and can press, the buttons of the chats they are in; a press
\* that names no event of the store can come from anyone
MayPress(data, u, M) ==
    LET p == Parsed[data] IN
    \/ ~p.ok
    \/ EventRows(p.event_id) = {}
    \/ \E e \in EventRows(p.event_id) : <<e.chat_id, u>> \in M

\* the operations of the game with the members M, who show the names NS;
\* the questions picked are QS, the outcomes of sending the question message
\* are SS and the clock moves by the steps TS
NextOn(M, NS, QS, SS, TS, maxEvents, maxTicks) ==
    \/ \E d \in TS : Tick(d, maxTicks)
    \/ \E m \in M, n \in NS : touch_user(m[1], m[2], n)
    \/ \E c \in ChatsOf(M), q \in QS, sent \in SS :
           Cardinality(events) < maxEvents /\ TriviaBody(c, q, sent)
    \/ \E data \in Payloads(maxEvents), u \in UsersOf(M), n \in NS :
           MayPress(data, u, M) /\ answer_cb(data, u, n)
    \/ \E e \in jobs : close_event_job(e)
    \/ \E c \in ChatsOf(M) : award_daily_badges(c)
    \/ \E c \in ChatsOf(M), k \in Kinds : ranking_cmd(c, k)

OneName == {"ana"}
\* send_message returns or raises
Outcomes == {TRUE, FALSE}
OneQuestion == { q \in QUESTIONS : q.q = "q2" }

\* answer submission: the two users of chat 1, the events MaxEvents, the
\* clock moving to the end of the answer window and past it
Next == NextOn({1} \X Users, OneName, OneQuestion, {TRUE}, {QUESTION_WINDOW_SECONDS}, MaxEvents, MaxTicks)

Spec == Init /\ [][Next]_vars

\* close-out with two answerers: chat 1 has both users, chat 2 has user 1
TwoChats == {<<1, 1>>, <<1, 2>>, <<2, 1>>}
NextStreak == NextOn(TwoChats, OneName, OneQuestion, {TRUE}, {QUESTION_WINDOW_SECONDS}, StreakEvents, StreakTicks)
SpecStreak == Init /\ [][NextStreak]_vars

\* close-out of events a user skipped: user 1 in both chats
OneUserTwoChats == {<<1, 1>>, <<2, 1>>}
NextSkip == NextOn(OneUserTwoChats, OneName, OneQuestion, {TRUE}, {QUESTION_WINDOW_SECONDS}, SkipEvents, SkipTicks)
SpecSkip == Init /\ [][NextSkip]_vars

\* badge passes over a day of one user in one chat
OneUserOneChat == {<<1, 1>>}
NextBadge == NextOn(OneUserOneChat, OneName, OneQuestion, {TRUE}, {QUESTION_WINDOW_SECONDS}, BadgeEvents, BadgeTicks)
SpecBadge == Init /\ [][NextBadge]_vars

\* rankings over days, weeks and months: the clock moves by a day and by the
\* roster window
NextRank == NextOn(TwoChats, OneName, OneQuestion, {TRUE}, {DAY, RosterWindow}, RankEvents, RankTicks)
SpecRank == Init /\ [][NextRank]_vars

\* a day of one user in one chat, taken up when DayHistory events of the day
\* have been answered by the user at their start and closed in the order of
\* their ids at their end, the last `right` of them answered right
DayStart(right) ==
    /\ now = Boot + QUESTION_WINDOW_SECONDS
    /\ users = {[chat_id |-> 1, user_id |-> 1, name |-> "ana",
                 last_seen_ts |-> Boot]}
    /\ events = { [id |-> i, chat_id |-> 1, question |-> "q2",
                   answer |-> LabelB, start_ts |-> Boot,
                   end_ts |-> Boot + QUESTION_WINDOW_SECONDS] : i \in 1..DayHistory }
    /\ answers = { [event_id |-> i, user_id |-> 1,
                    choice |-> IF i > DayHistory - right THEN LabelB ELSE LabelA,
                    correct |-> IF i > DayHistory - right THEN 1 ELSE 0,
                    ts |-> Boot] : i \in 1..DayHistory }
    /\ streaks = {[chat_id |-> 1, user_id |-> 1,
                   streak |-> right, best_streak |-> right]}
    /\ badges = {}
    /\ jobs = {}
    /\ closed = 1..DayHistory
    /\ bot_data = <<>>
InitDay == \E right \in 0..DayHistory : DayStart(right)
NextDay == NextOn(OneUserOneChat, OneName, OneQuestion, {TRUE}, {QUESTION_WINDOW_SECONDS}, DayEvents, DayTicks)
SpecDay == InitDay /\ [][NextDay]_vars

\* broadcasts whose question message may fail to be sent
NextSend == NextOn(OneUserOneChat, OneName, OneQuestion, Outcomes, {QUESTION_WINDOW_SECONDS}, SendEvents, SendTicks)
SpecSend == Init /\ [][NextSend]_vars

\* period_bounds at the hours around the changes of offset of 2026, the end
\* of the year and the end of February: the process is started at one of
\* these hours and its rankings are asked for
PeriodDates == {<<2026, 3, 28>>, <<2026, 10, 24>>, <<2026, 12, 30>>, <<2027, 2, 27>>}
PeriodTimes ==
    { MonthStartTs(d[1], d[2]) + (d[3] - 1) * DAY + h * 3600 :
        d \in PeriodDates, h \in 0..PeriodHours }
InitPeriod ==
    /\ now \in PeriodTimes
    /\ users = {} /\ events = {} /\ answers = {} /\ streaks = {}
    /\ badges = {} /\ jobs = {} /\ closed = {} /\ bot_data = <<>>
NextPeriod == \E c \in Chats, k \in Kinds : ranking_cmd(c, k)
SpecPeriod == InitPeriod /\ [][NextPeriod]_vars

\* the process as main() sets it up: the handlers of the three commands, of
\* the button presses and of chat activity, and the two daily jobs. No
\* close-out is among the steps: trivia_job is what schedules one, and it
\* finds no chat to loop over
NextProgram ==
    \/ \E d \in {QUESTION_WINDOW_SECONDS, DAY} : Tick(d, ProgramTicks)
    \/ \E c \in Chats : start(c)
    \/ \E c \in Chats : pregunta_ahora(c, QUESTIONS, Outcomes)
    \/ \E c \in Chats, k \in Kinds : ranking_cmd(c, k)
    \/ \E m \in Everyone, n \in OneName : touch_user(m[1], m[2], n)
    \/ \E data \in Payloads(MaxEvents), u \in Users, n \in OneName :
           MayPress(data, u, Everyone) /\ answer_cb(data, u, n)
    \/ trivia_job(QUESTIONS, Outcomes)
    \/ daily_summary_job(Outcomes)
SpecProgram == Init /\ [][NextProgram]_vars

(***************************************************************************)
(* Answer submission                                                       *)
(***************************************************************************)
Presses == Payloads(MaxEvents)

\* the submission data names an event of the store and parses
NamesEvent(data) ==
    Parsed[data].ok /\ EventRows(Parsed[data].event_id) # {}
EventOf(data) == CHOOSE e \in events : e.id = Parsed[data].event_id

\* C1: in every step the answers already stored stay as they are (same
\* choice, same correctness flag), and the answers table holds at most one
\* row for each (event, user)
C1_OneAnswerFirstKept ==
    [][ /\ \A a \in answers : a \in answers'
        /\ \A a, b \in answers' :
               (a.event_id = b.event_id /\ a.user_id = b.user_id) => a = b ]_vars

\* both users answered the same event, one of them with the wrong label, and
\* its window is still open, so that either can press again
C1_Witness ==
    \E e \in events :
        /\ now <= e.end_ts
        /\ \A u \in Users : AnswerRows(e.id, u) # {}
        /\ \E a \in answers : a.event_id = e.id /\ a.correct = 0

\* the submission is one the claim calls rejected: its data does not parse,
\* or names no event, or comes strictly after the event's end
Rejected(data) ==
    \/ ~Parsed[data].ok
    \/ EventRows(Parsed[data].event_id) = {}
    \/ now > EventOf(data).end_ts

\* C2: a rejected submission (malformed data, unknown event, or current time
\* strictly after the event's end, whatever the label) creates no answer row
\* and leaves the users, events, answers, streaks and badges tables as they are
C2_RejectedNoEffect ==
    \A data \in Presses, u \in Users, n \in Names :
        Rejected(data) =>
            /\ AnswerCbTables(data, u, n) = tables
            /\ AnswerCbResult(data, u, n).ack \in {AckNone, AckNotFound, AckLate}

\* an event is past its end and a user never answered it: their press, right
\* label or wrong, is now late
C2_Witness ==
    \E e \in events, u \in Users :
        /\ now > e.end_ts
        /\ AnswerRows(e.id, u) = {}
        /\ UserRows(e.chat_id, u) = {}

\* C3: a submission for an existing event at a time now <= end (now = end
\* included) by a user with no answer for it leaves exactly one answer row
\* for (event, user), with the label pressed and correct = 1 exactly when
\* the label is the event's stored answer
C3_AcceptedInWindow ==
    \A data \in Presses, u \in Users, n \in Names :
        (/\ NamesEvent(data)
         /\ now <= EventOf(data).end_ts
         /\ AnswerRows(EventOf(data).id, u) = {})
        =>
        LET ev == EventOf(data)
            label == Parsed[data].choice
            after == AnswerCbResult(data, u, n).answers
            mine == { a \in after : a.event_id = ev.id /\ a.user_id = u }
        IN /\ Cardinality(mine) = 1
           /\ \A a \in mine :
                  /\ a.choice = label
                  /\ a.correct = (IF label = ev.answer THEN 1 ELSE 0)
                  /\ (a.correct = 1 <=> label = ev.answer)
           /\ after \ mine = answers

\* an answer was accepted at the very second the event ends, and the event
\* has a right and a wrong answer
C3_Witness ==
    \E e \in events :
        /\ \E a \in answers : a.event_id = e.id /\ a.ts = e.end_ts
        /\ \E a \in answers : a.event_id = e.id /\ a.correct = 1
        /\ \E a \in answers : a.event_id = e.id /\ a.correct = 0

\* the submission is a second one: the user already has an answer for the
\* event and the window is still open
SecondPress(data, u) ==
    /\ NamesEvent(data)
    /\ now <= EventOf(data).end_ts
    /\ AnswerRows(EventOf(data).id, u) # {}

\* C4 as stated: a second submission in the open window is acknowledged as
\* already answered and changes none of the users, answers, streaks, events
\* and badges tables
C4_SecondPressChangesNothing ==
    \A data \in Presses, u \in Users, n \in Names :
        SecondPress(data, u) =>
            /\ AnswerCbResult(data, u, n).ack = AckDuplicate
            /\ AnswerCbTables(data, u, n) = tables

\* C4 as amended: a second submission in the open window is acknowledged as
\* already answered and leaves the events, answers, streaks and badges tables
\* as they are; in users it rewrites the row of the user in the event's chat
\* with the name shown and last seen = now, and no other row
C4_SecondPressTouchesUserOnly ==
    \A data \in Presses, u \in Users, n \in Names :
        SecondPress(data, u) =>
            LET after == AnswerCbTables(data, u, n)
                c == EventOf(data).chat_id
            IN /\ AnswerCbResult(data, u, n).ack = AckDuplicate
               /\ <<after[2], after[3], after[4], after[5]>>
                      = <<events, answers, streaks, badges>>
               /\ \A r \in users :
                      (r.chat_id # c \/ r.user_id # u) => r \in after[1]
               /\ \A r \in after[1] :
                      \/ r \in users /\ (r.chat_id # c \/ r.user_id # u)
                      \/ r = [chat_id |-> c, user_id |-> u,
                              name |-> n, last_seen_ts |-> now]

\* a user who answered an event before its last second was seen again at
\* that last second, while the event still takes answers
C4_Witness ==
    \E e \in events, a \in answers, r \in users :
        /\ a.event_id = e.id /\ a.ts < now /\ now = e.end_ts
        /\ r.chat_id = e.chat_id /\ r.user_id = a.user_id
        /\ r.last_seen_ts = now

(***************************************************************************)
(* Close-out                                                               *)
(***************************************************************************)
\* the values of the streak row of (chat, user) in the table st, (0, 0) if
\* there is no row
StreakOf(st, c, u) ==
    IF StreakRowsIn(st, c, u) = {} THEN [streak |-> 0, best_streak |-> 0]
    ELSE LET r == CHOOSE x \in StreakRowsIn(st, c, u) : TRUE
         IN [streak |-> r.streak, best_streak |-> r.best_streak]

\* C5: the close-out of an event leaves, for every user with an answer row
\* for it, one streak row in the event's chat, with streak = S + 1 if the
\* answer is correct and 0 if not, and best streak = max(B, new streak),
\* (S, B) being the row's values before, (0, 0) if there was none
C5_StreakLaw ==
    \A e \in events : e.id \in jobs =>
        LET after == CloseEventResult(e.id).streaks IN
        \A a \in answers : a.event_id = e.id =>
            LET before == StreakOf(streaks, e.chat_id, a.user_id)
                new == StreakOf(after, e.chat_id, a.user_id)
            IN /\ Cardinality(StreakRowsIn(after, e.chat_id, a.user_id)) = 1
               /\ new.streak = (IF a.correct = 1 THEN before.streak + 1 ELSE 0)
               /\ new.best_streak = Max(before.best_streak, new.streak)

\* two events of a chat are closed; one user answered one right and then one
\* wrong (streak 0, best 1), the other answered both right (streak 2)
C5_Witness ==
    /\ closed = {1, 2}
    /\ \E r1, r2 \in streaks :
           /\ r1.chat_id = r2.chat_id
           /\ r1.streak = 0 /\ r1.best_streak = 1
           /\ r2.streak = 2 /\ r2.best_streak = 2

\* C6: the close-out of an event leaves as it is the streak row of every
\* user with no answer row for the event, and every streak row of any other
\* chat, and adds no row for them
C6_StreakFrame ==
    \A e \in events : e.id \in jobs =>
        LET after == CloseEventResult(e.id).streaks
            Untouched(r) == r.chat_id # e.chat_id \/ AnswerRows(e.id, r.user_id) = {}
        IN /\ \A r \in streaks : Untouched(r) => r \in after
           /\ \A r \in after : Untouched(r) => r \in streaks

\* the three events of chat 1 are closed; the user answered the first and the
\* third right and the second not at all, and their streak is 2; their streak
\* row of chat 2 is still the (0, 0) it was
C6_Witness ==
    /\ closed = {1, 2, 3}
    /\ \A e \in events : e.chat_id = 1
    /\ \E u \in Users :
           /\ \E a \in answers : a.event_id = 1 /\ a.user_id = u /\ a.correct = 1
           /\ AnswerRows(2, u) = {}
           /\ \E a \in answers : a.event_id = 3 /\ a.user_id = u /\ a.correct = 1
           /\ StreakOf(streaks, 1, u) = [streak |-> 2, best_streak |-> 2]
           /\ StreakRowsIn(streaks, 2, u) # {}
           /\ StreakOf(streaks, 2, u) = [streak |-> 0, best_streak |-> 0]

(***************************************************************************)
(* Badges                                                                  *)
(***************************************************************************)
\* the times of the same day at which a second pass may run
LaterSameDay(t) ==
    { t2 \in {t, t + 1, t + QUESTION_WINDOW_SECONDS, period_bounds("dia", t)[2] - 1} :
        t2 >= t /\ DayNo(t2 + UtcOffset(t2)) = DayNo(t + UtcOffset(t)) }

\* C7: a second badge pass for the same chat and day, with nothing changed
\* since the first, inserts no badge row and returns an empty map
C7_BadgePassIdempotent ==
    \A c \in Chats :
        LET first == AwardResult(c, now, badges) IN
        \A t2 \in LaterSameDay(now) :
            LET second == AwardResult(c, t2, first.badges)
            IN second.badges = first.badges /\ DOMAIN second.awarded = {}

\* a pass has given the user a day medal and a streak badge today, and a
\* pass run now gives nothing
C7_Witness ==
    \E b1, b2 \in badges :
        /\ b1.code = "BRONCE_DIA" /\ b2.code = "RACHA_3"
        /\ b1.period_key = DateKey(period_bounds("dia", now)[1])
        /\ b2.period_key = b1.period_key
        /\ DOMAIN AwardResult(b1.chat_id, now, badges).awarded = {}

\* C8: the badges table holds at most one row for each (chat, user, badge
\* code, period key)
C8_OneBadgePerPeriod ==
    \A a, b \in badges :
        (/\ a.chat_id = b.chat_id /\ a.user_id = b.user_id
         /\ a.code = b.code /\ a.period_key = b.period_key) => a = b

\* the user got RACHA_3 at an earlier second of today, their streak has since
\* gone from 3 to 4 with another right answer of today, and a pass at this
\* second finds the row in place and leaves the table as it is
C8_Witness ==
    \E b1 \in badges :
        /\ b1.code = "RACHA_3" /\ b1.ts < now
        /\ b1.period_key = DateKey(period_bounds("dia", now)[1])
        /\ StreakOf(streaks, b1.chat_id, b1.user_id).streak = 4
        /\ \E a \in answers :
               a.user_id = b1.user_id /\ a.correct = 1 /\ a.ts >= b1.ts
        /\ AwardResult(b1.chat_id, now, badges).badges = badges

(***************************************************************************)
(* Rankings                                                                *)
(***************************************************************************)
\* the events of the chat whose start time lies in the period of now
EventsInPeriod(c, kind) ==
    { e \in events :
        /\ e.chat_id = c
        /\ e.start_ts >= period_bounds(kind, now)[1]
        /\ e.start_ts < period_bounds(kind, now)[2] }

\* the answer rows of the user to those events with the given correctness
PeriodAnswers(c, kind, u, flag) ==
    { a \in answers :
        /\ a.user_id = u /\ a.correct = flag
        /\ \E e \in EventsInPeriod(c, kind) : e.id = a.event_id }

\* the users with an answer row for one of those events
Answerers(c, kind) ==
    { u \in Users : \E a \in answers, e \in EventsInPeriod(c, kind) :
                        a.event_id = e.id /\ a.user_id = u }

RankedIds(rows) == { rows[i].user_id : i \in 1..Len(rows) }

\* C9: for every chat and period each ranking row has hits = the number of
\* the user's correct answer rows and faults = the number of their incorrect
\* ones over the chat's events that start in the period, and the rows come
\* by hits descending, equal hits by faults ascending
C9_RankCountsAndOrder ==
    \A c \in Chats, k \in Kinds, scan \in ScanOrders :
        LET rows == fetch_rank(c, k, now, scan).rows IN
        /\ \A i \in 1..Len(rows) :
               /\ rows[i].aciertos
                      = Cardinality(PeriodAnswers(c, k, rows[i].user_id, 1))
               /\ rows[i].fallos
                      = Cardinality(PeriodAnswers(c, k, rows[i].user_id, 0))
        /\ \A i, j \in 1..Len(rows) : i < j =>
               \/ rows[i].aciertos > rows[j].aciertos
               \/ /\ rows[i].aciertos = rows[j].aciertos
                  /\ rows[i].fallos <= rows[j].fallos

\* a chat had an event yesterday and one today, in the same week: A answered
\* both right, B one right and one wrong; the week's ranking is [A, B] though
\* B's group came first, and the day's ranking counts today's event only
C9_Witness ==
    \E c \in Chats, scan \in ScanOrders :
        LET week == fetch_rank(c, "semana", now, scan).rows
            day == fetch_rank(c, "dia", now, scan).rows
        IN /\ Len(week) = 2 /\ Len(day) = 2
           /\ scan[1] = week[2].user_id
           /\ week[1].aciertos = 2 /\ week[1].fallos = 0
           /\ week[2].aciertos = 1 /\ week[2].fallos = 1
           /\ \A i \in 1..2 : day[i].aciertos + day[i].fallos = 1

\* C10: for every chat and period the ranking rows are one for each user
\* with an answer row among the chat's events of the period and for no one
\* else, the non-participants are the chat's users last seen within 30 days
\* less those users, no user is in both, and when the chat has no event in
\* the period rows, roster and non-participants are all empty
C10_RowsAndNonParticipants ==
    \A c \in Chats, k \in Kinds, scan \in ScanOrders :
        LET r == fetch_rank(c, k, now, scan)
            recent == { x \in users :
                          x.chat_id = c /\ x.last_seen_ts >= now - 30 * DAY }
        IN IF EventsInPeriod(c, k) = {}
           THEN r.rows = <<>> /\ r.roster = {} /\ r.not_ans = {}
           ELSE /\ RankedIds(r.rows) = Answerers(c, k)
                /\ Len(r.rows) = Cardinality(Answerers(c, k))
                /\ { x.user_id : x \in r.roster } = { x.user_id : x \in recent }
                /\ { x.user_id : x \in r.not_ans }
                       = { x.user_id : x \in recent } \ Answerers(c, k)
                /\ RankedIds(r.rows) \cap { x.user_id : x \in r.not_ans } = {}

\* a chat has an event of yesterday that one user answered and an event of
\* today that nobody answered: they are ranked for the week and a
\* non-participant of the day; the chat's other user, last seen more than 30
\* days ago, is in neither list
C10_Witness ==
    \E c \in Chats, u, v \in Users, scan \in ScanOrders :
        LET week == fetch_rank(c, "semana", now, scan)
            day == fetch_rank(c, "dia", now, scan)
        IN /\ RankedIds(week.rows) = {u} /\ week.not_ans = {}
           /\ day.rows = <<>> /\ { x.user_id : x \in day.not_ans } = {u}
           /\ EventsInPeriod(c, "dia") # {}
           /\ \E x \in users : /\ x.chat_id = c /\ x.user_id = v
                               /\ x.last_seen_ts < now - 30 * DAY
           /\ v \notin RankedIds(week.rows)
           /\ v \notin { x.user_id : x \in week.roster }

(***************************************************************************)
(* Periods                                                                 *)
(***************************************************************************)
\* the instant t shows the wall-clock time w in the zone
ShowsWall(t, w) == t + UtcOffset(t) = w

\* C11: at every instant the day, week and month periods contain the
\* instant; the day runs from the local midnight of the current date to the
\* next local midnight, the week from Monday 00:00 to the next Monday 00:00,
\* the month from the first of the month 00:00 to the first of the next
\* month 00:00, which for December is January 1 of the next year
C11_PeriodBounds ==
    LET w == now + UtcOffset(now)
        c == Civil(w)
        day == period_bounds("dia", now)
        week == period_bounds("semana", now)
        month == period_bounds("mes", now)
        monday == (DayNo(w) - Weekday(w)) * DAY
    IN /\ \A k \in Kinds :
              period_bounds(k, now)[1] <= now /\ now < period_bounds(k, now)[2]
       /\ ShowsWall(day[1], DayNo(w) * DAY)
       /\ ShowsWall(day[2], (DayNo(w) + 1) * DAY)
       /\ ShowsWall(week[1], monday)
       /\ ShowsWall(week[2], monday + 7 * DAY)
       /\ ShowsWall(month[1], MonthStartTs(c[1], c[2]))
       /\ ShowsWall(month[2], IF c[2] = 12 THEN MonthStartTs(c[1] + 1, 1)
                              ELSE MonthStartTs(c[1], c[2] + 1))

(***************************************************************************)
(* Active chats                                                            *)
(***************************************************************************)
\* C12: a registration leaves the registering chat in the stored set of
\* active chats and removes no chat from it, and the set the broadcast and
\* the daily summary loop over is that stored set
C12_RegistrationKept ==
    [][/\ StoredChats(bot_data) \subseteq StoredChats(bot_data')
       /\ \A c \in Chats : start(c) => c \in StoredChats(bot_data')
       /\ GetattrChatIds(bot_data') = StoredChats(bot_data')]_vars

(***************************************************************************)
(* Broadcast                                                               *)
(***************************************************************************)
\* C13: in every state, for every chat stored as registered, a firing of the
\* broadcast task (taken here with every send going through) persists one
\* new event for the chat, with start = now and end = start + 180, and
\* schedules one close-out, for that event's id
C13_BroadcastPerRegisteredChat ==
    \A c \in StoredChats(bot_data) :
        LET ids == GetattrChatIds(bot_data) IN
        \A order \in Orders(ids), q \in [ids -> QUESTIONS], sent \in [ids -> {TRUE}] :
            LET r == TriviaJobResult(order, q, sent)
                new == { e \in r.events \ events : e.chat_id = c }
            IN /\ Cardinality(new) = 1
               /\ \A e \in new : /\ e.start_ts = now
                                 /\ e.end_ts = e.start_ts + 180
                                 /\ e.id \in r.jobs \ jobs
               /\ Cardinality(r.jobs \ jobs) = Cardinality(r.events \ events)

\* C14: every persisted event has its one close-out, either still scheduled
\* or already run, whether the question message was sent or the send raised
C14_EveryEventClosesOut ==
    \A e \in events : e.id \in jobs \/ e.id \in closed

(***************************************************************************)
(* Day medals                                                              *)
(***************************************************************************)
\* C15: after a badge pass for a chat, a user with h right answers to the
\* chat's events of the day has the day's BRONCE_DIA row iff h >= 3, the
\* PLATA_DIA row iff h >= 5 and the ORO_DIA row iff h >= 6 (h never goes
\* down within a day, so a threshold reached at an earlier pass is reached
\* at this one)
C15_DayTiersByHits ==
    \A c \in Chats, u \in Users :
        LET after == AwardResult(c, now, badges).badges
            key == DateKey(period_bounds("dia", now)[1])
            h == Cardinality(PeriodAnswers(c, "dia", u, 1))
            Holds(code) == \E b \in after :
                               /\ b.chat_id = c /\ b.user_id = u
                               /\ b.code = code /\ b.period_key = key
        IN /\ Holds("BRONCE_DIA") <=> h >= 3
           /\ Holds("PLATA_DIA") <=> h >= 5
           /\ Holds("ORO_DIA") <=> h >= 6

\* the user has six right answers today and holds the three medals of the
\* day, the bronze one from an earlier pass than the gold one
C15_Witness ==
    \E b1, b2, b3 \in badges :
        /\ b1.code = "BRONCE_DIA" /\ b2.code = "PLATA_DIA" /\ b3.code = "ORO_DIA"
        /\ b1.user_id = b3.user_id /\ b2.user_id = b3.user_id
        /\ b1.chat_id = b3.chat_id /\ b2.chat_id = b3.chat_id
        /\ b1.period_key = b3.period_key /\ b2.period_key = b3.period_key
        /\ b3.period_key = DateKey(period_bounds("dia", now)[1])
        /\ b1.ts < b3.ts
        /\ Cardinality(PeriodAnswers(b3.chat_id, "dia", b3.user_id, 1)) = 6

(***************************************************************************)
(* Daily summary                                                           *)
(***************************************************************************)
\* how many times x occurs in the sequence seq
Occurrences(seq, x) == Cardinality({ i \in 1..Len(seq) : seq[i] = x })

\* C16: a firing of the daily summary task (taken here with every send
\* going through) sends one summary to every chat stored as registered and
\* runs the badge pass once for each of them, whether or not the chat had an
\* event or a roster entry that day
C16_SummaryPerActiveChat ==
    LET ids == GetattrChatIds(bot_data) IN
    \A order \in Orders(ids), scan \in ScanOrders, delivered \in [ids -> {TRUE}] :
        LET r == DailySummaryResult(order, scan, delivered) IN
        \A c \in StoredChats(bot_data) :
            Occurrences(r.sent, c) = 1 /\ Occurrences(r.passes, c) = 1

(***************************************************************************)
(* Close-out and late answers                                              *)
(***************************************************************************)
\* C17: the close-out of an event has read every answer row the event will
\* ever have: once it has run, no press stores an answer for the event
C17_CloseOutReadsAllAnswers ==
    \A data \in Presses, u \in Users, n \in Names :
        (NamesEvent(data) /\ EventOf(data).id \in closed) =>
            AnswerCbResult(data, u, n).answers = answers

(***************************************************************************)
(* Streak records                                                          *)
(***************************************************************************)
\* C18: a step that is not a close-out (an accepted or a duplicate answer, a
\* last-seen touch, a ranking request, a badge pass, a broadcast, a move of
\* the clock) keeps every streak row as it is, and a row it adds is the
\* (0, 0) row of a (chat, user) that had none
C18_StreaksChangeOnlyAtCloseOut ==
    [][closed' = closed =>
          /\ streaks \subseteq streaks'
          /\ \A r \in streaks' \ streaks :
                 /\ r.streak = 0 /\ r.best_streak = 0
                 /\ StreakRowsIn(streaks, r.chat_id, r.user_id) = {}]_vars

\* a user whose streak the close-out of one event set to 1 has since had an
\* answer accepted for the next event, which is not closed yet, and a badge
\* pass and touches may have run: the streak is still 1
C18_Witness ==
    \E r \in streaks, e1, e2 \in events, a1, a2 \in answers :
        /\ r.streak = 1 /\ r.best_streak = 1
        /\ e1.chat_id = r.chat_id /\ e2.chat_id = r.chat_id
        /\ e1.id \in closed /\ e2.id \notin closed
        /\ a1.event_id = e1.id /\ a1.user_id = r.user_id /\ a1.correct = 1
        /\ a2.event_id = e2.id /\ a2.user_id = r.user_id
        /\ a2.ts >= e1.end_ts /\ a2.ts > a1.ts

(***************************************************************************)
(* Streak badges                                                           *)
(***************************************************************************)
\* the day's rows of a streak badge of (chat, user) in the badges table bs
StreakBadgeRows(bs, c, u, code) ==
    { b \in bs : /\ b.chat_id = c /\ b.user_id = u /\ b.code = code
                 /\ b.period_key = DateKey(period_bounds("dia", now)[1]) }

\* C19 as stated: once a close-out of the day has brought a user's streak
\* in a chat to 3 (to 5), the day's RACHA_3 (RACHA_5) row of the user gets
\* recorded, once, whatever the user answers after that. The events of
\* SpecDay are all of one day, so a best streak of 3 tells that a close-out
\* of the day brought the streak to 3; the row is recorded by a badge pass
\* or not at all, and the pass looks at nothing but the tables, so the row
\* has to be there after a pass run now: if it is not, it never is when the
\* user answers no more that day
C19_StreakBadgeWhateverFollows ==
    \A c \in Chats, u \in Users :
        LET after == AwardResult(c, now, badges).badges
            best == StreakOf(streaks, c, u).best_streak
        IN /\ best >= 3 =>
                  Cardinality(StreakBadgeRows(after, c, u, "RACHA_3")) = 1
           /\ best >= 5 =>
                  Cardinality(StreakBadgeRows(after, c, u, "RACHA_5")) = 1

\* C19 as amended: a badge pass for a chat leaves exactly one RACHA_3
\* (RACHA_5) row of the day for every user whose streak in the chat is at
\* least 3 (5) when the pass runs, and adds no such row for a user whose
\* streak is lower then, whatever it was earlier that day
C19_StreakBadgeAtPass ==
    \A c \in Chats, u \in Users :
        LET after == AwardResult(c, now, badges).badges
            s == StreakOf(streaks, c, u).streak
            Settled(code, th) ==
                IF s >= th
                THEN Cardinality(StreakBadgeRows(after, c, u, code)) = 1
                ELSE StreakBadgeRows(after, c, u, code)
                         = StreakBadgeRows(badges, c, u, code)
        IN Settled("RACHA_3", 3) /\ Settled("RACHA_5", 5)

\* the user got RACHA_3 at a pass run at streak 3 and RACHA_5 at a later
\* pass run at streak 5, and a pass run now adds nothing
C19_Witness ==
    \E b3, b5 \in badges :
        /\ b3.code = "RACHA_3" /\ b5.code = "RACHA_5"
        /\ b3.chat_id = b5.chat_id /\ b3.user_id = b5.user_id
        /\ b3.period_key = b5.period_key /\ b3.ts < b5.ts
        /\ StreakOf(streaks, b5.chat_id, b5.user_id).streak = 5
        /\ AwardResult(b5.chat_id, now, badges).badges = badges

\* C20: in every state every streak row has 0 <= streak <= best streak, and
\* no step removes a streak row or lowers its best streak
C20_StreakWithinBest ==
    /\ [](\A r \in streaks : 0 <= r.streak /\ r.streak <= r.best_streak)
    /\ [][\A r \in streaks : \E r2 \in streaks' :
              /\ r2.chat_id = r.chat_id /\ r2.user_id = r.user_id
              /\ r2.best_streak >= r.best_streak]_vars

\* three events of a chat are closed; the user answered two right and then
\* one wrong: the streak is back at 0 and the best streak still 2
C20_Witness ==
    /\ closed = {1, 2, 3}
    /\ \E r \in streaks : r.streak = 0 /\ r.best_streak = 2

====
